---- MODULE Spec2Model ----
(***************************************************************************)
(* Model of the two utilities of the repository:                           *)
(*   - src/app_flask.py: the REST proxy in front of the remote             *)
(*     image-to-3D service (process_image, get_status, get_result,         *)
(*     _meshy_headers, _save_meta);                                        *)
(*   - src/360view_direct.py: the point-cloud viewer (main, load_ply,       *)
(*     downsample, lock_vertical_rotation).                                *)
(* Each HTTP handler is a small process: a request slot holds the          *)
(* handler's position (pc), its inputs, its locals, the remote calls it    *)
(* has made and the response it sent.  The remote service and the file     *)
(* system are the environment: their answers are nondeterministic.         *)
(***************************************************************************)
EXTENDS Integers, Sequences, FiniteSets, TLC

VARIABLES
    api_key,      \* MESHY_API_KEY as read at import time (app_flask.py:23)
    req,          \* request slot -> state of the handler running in it
    remote,       \* remote service: task id -> job status ("none" = no such job)
    meta_dirs,    \* task ids whose OUTPUTS_DIR/<task_id> directory exists
    meta_log,     \* task id -> sequence of the contents written to meta.json
    ds,           \* viewer: state of one downsample() call
    cam,          \* viewer: the camera under the horizontal-only limiter
    vw            \* viewer: state of one run of main()

vars == <<api_key, req, remote, meta_dirs, meta_log, ds, cam, vw>>

viewer_vars == <<ds, cam, vw>>

proxy_vars == <<api_key, req, remote, meta_dirs, meta_log>>

----------------------------------------------------------------------------
(* Bounds of the model *)

\* number of request slots (handler threads of the host HTTP framework)
NReq == 2

\* number of jobs the remote service creates in one run
MaxTasks == 1

\* largest point cloud and largest target count tried in downsample()
MaxPoints == 3

\* number of consecutive frames of the rotation limiter followed without
\* user input in between
MaxTicks == 3

----------------------------------------------------------------------------
(* Values *)

\* Python None / JSON null
Null == "null"

\* a parameter, form field, JSON key or file the request does not carry
Absent == "absent"

Reqs == 1..NReq

TaskIdOf == <<"t1", "t2", "t3", "t4">>

\* the task identifiers the remote service hands out, in this order
TaskIds == {TaskIdOf[i] : i \in 1..MaxTasks}

\* path parameters a client may send: known identifiers and one the remote
\* service never issued
PathIds == TaskIds \cup {"t-unknown"}

EmptyObj == [k \in {} |-> Null]

\* dict.get(k): the value under k, None when the key is missing
Get(obj, k) == IF k \in DOMAIN obj THEN obj[k] ELSE Null

\* str.lower() on the strings the model uses
Lower(s) ==
    CASE s = "GLB" -> "glb"
      [] s = "Ply" -> "ply"
      [] s = "OBJ" -> "obj"
      [] s = "XYZ" -> "xyz"
      [] s = "TRUE" -> "true"
      [] s = "On" -> "on"
      [] s = "No" -> "no"
      [] OTHER -> s

----------------------------------------------------------------------------
(* _meshy_headers *)

\* the message of the RuntimeError, its Hangul written with the \uXXXX escapes
\* of the JSON body (the module is ASCII)
ConfigMsg ==
    "MESHY_API_KEY\\uac00 \\uc124\\uc815\\ub418\\uc9c0 \\uc54a\\uc558\\uc2b5\\ub2c8\\ub2e4. \\ud658\\uacbd \\ubcc0\\uc218\\ub098 .env \\ud30c\\uc77c\\uc5d0 \\ud0a4\\ub97c \\ucd94\\uac00\\ud574\\uc8fc\\uc138\\uc694."

\* faulty variant: only an unset variable counts as missing
KeyConfigured_UnsetOnly == api_key # Null

\* `if not MESHY_API_KEY`: an unset and an empty variable are both falsy
KeyConfigured == api_key \notin {Null, ""}

----------------------------------------------------------------------------
(* Inputs of POST /api/process-image *)

\* the multipart part named 'image': none, a file with a filename, a part
\* with an empty filename
Files == {Absent, "photo.png", ""}

\* image_base64: missing, empty, plain base64, base64 behind a data-URI
\* prefix, base64 with wrong padding
B64Values == {Absent, "", "QUJD", "data:image/png;base64,QUJD", "QUJ"}

UrlValues == {Absent, "", "http://img/1.png"}

AiValues == {"latest", "meshy-5", "bogus"}

\* raw values of the three flags (enable_pbr, should_remesh, should_texture)
\* as a JSON body carries them: JSON false, a JSON string, the number 0
JsonFlags == <<"J:false", "J:str", "J:0">>

\* ... and as form fields carry them
FormFlags == <<"No", "On", "TRUE">>

NoFlags == <<Absent, Absent, Absent>>

\* a request: its Content-Type ("multipart", "json", "form" for a
\* url-encoded body, "text", or none), the kind of its JSON body (an object,
\* "null", "scalar" for a truthy non-object, "malformed" for bytes that do
\* not parse), its fields, and for the GET routes the task id and format
NoInput ==
    [ctype |-> Absent, body |-> Absent, file |-> Absent, b64 |-> Absent,
     url |-> Absent, ai |-> Absent, flags |-> NoFlags,
     task |-> Absent, fmt |-> Absent]

MultipartInput(f) == [NoInput EXCEPT !.ctype = "multipart", !.file = f]

JsonInput(b, u) ==
    [NoInput EXCEPT !.ctype = "json", !.body = "object", !.b64 = b, !.url = u]

\* requests that carry an image, one for each way of carrying it
Carriers ==
    { MultipartInput("photo.png"), JsonInput("QUJD", Absent),
      JsonInput(Absent, "http://img/1.png") }

\* the requests tried: every multipart part; every image_base64 alone,
\* every image_url alone and both together; the bodies and content types
\* that carry no fields; every ai_model with an upload and one to replace
\* with a URL; the flags in both encodings
ProcessInputs ==
    { MultipartInput(f) : f \in Files }
    \cup { JsonInput(b, Absent) : b \in B64Values }
    \cup { JsonInput(Absent, u) : u \in UrlValues }
    \cup { JsonInput("QUJD", "http://img/1.png"), JsonInput("", "") }
    \cup { [NoInput EXCEPT !.ctype = "json", !.body = b] :
             b \in {"null", "scalar", "malformed"} }
    \cup { [NoInput EXCEPT !.ctype = c] : c \in {"form", "text", Absent} }
    \cup { [MultipartInput("photo.png") EXCEPT !.ai = a] : a \in AiValues }
    \cup { [JsonInput(Absent, "http://img/1.png") EXCEPT !.ai = "bogus"] }
    \cup { [MultipartInput("photo.png") EXCEPT !.flags = FormFlags],
           [JsonInput(Absent, "http://img/1.png") EXCEPT !.flags = JsonFlags] }
    \cup { [NoInput EXCEPT !.ctype = "form", !.ai = "bogus", !.flags = FormFlags] }

----------------------------------------------------------------------------
(* process_image: parsing of the request (app_flask.py:170-225) *)

\* request.is_json: the mimetype is application/json
IsJson(in) == in.ctype = "json"

\* request.content_type.startswith("multipart/form-data")
IsMultipart(in) == in.ctype = "multipart"

\* (request.json or {}).get(name): the value a parsed JSON object carries
JsonGet(in, v) == IF in.body = "object" THEN v ELSE Absent

\* request.form holds the fields of multipart and url-encoded bodies only
FormGet(in, v) == IF in.ctype \in {"multipart", "form"} THEN v ELSE Absent

\* bool(val) of a JSON value
PyBool(v) ==
    CASE v = "J:true" -> TRUE
      [] v = "J:false" -> FALSE
      [] v = "J:0" -> FALSE
      [] v = "J:str" -> TRUE
      [] OTHER -> FALSE

\* get_flag(name, default=True) for the i-th flag of the request
get_flag(in, i) ==
    IF IsJson(in)
    THEN IF JsonGet(in, in.flags[i]) = Absent THEN TRUE
         ELSE PyBool(JsonGet(in, in.flags[i]))
    ELSE IF FormGet(in, in.flags[i]) = Absent THEN TRUE
         ELSE Lower(FormGet(in, in.flags[i])) \in {"1", "true", "on", "yes"}

\* the ai_model the request supplies, "latest" when it supplies none
ai_model_raw(in) ==
    LET v == IF IsJson(in) THEN JsonGet(in, in.ai) ELSE FormGet(in, in.ai)
    IN  IF v = Absent THEN "latest" ELSE v

\* `if ai_model not in ["latest", "meshy-5"]: ai_model = "latest"`
validate_ai_model(a) == IF a \notin {"latest", "meshy-5"} THEN "latest" ELSE a

\* b64.split(",", 1)[1] when the string holds a comma
strip_data_prefix(b) == IF b = "data:image/png;base64,QUJD" THEN "QUJD" ELSE b

\* base64.b64decode: the bytes, or "error" (binascii.Error, wrong padding)
b64decode(s) ==
    CASE s = "QUJD" -> "ABC"
      [] s = "UE5HREFUQQ==" -> "PNGDATA"
      [] OTHER -> "error"

\* base64.b64encode(...).decode("utf-8")
b64encode(bytes) ==
    CASE bytes = "ABC" -> "QUJD"
      [] bytes = "PNGDATA" -> "UE5HREFUQQ=="
      [] OTHER -> "?"

\* file.read() of the uploaded part
file_read(f) == "PNGDATA"

\* f"data:image/png;base64,{img_b64}"
data_url(bytes) == "data:image/png;base64," \o b64encode(bytes)

\* the exception the flag and ai_model parsing raises, "none" when it does
\* not: request.json raises BadRequest on an unparseable body, and .get on
\* a truthy non-object raises AttributeError
json_access_exc(in) ==
    IF IsJson(in) /\ in.body = "malformed" THEN "BadRequest"
    ELSE IF IsJson(in) /\ in.body = "scalar" THEN "AttributeError"
    ELSE "none"

\* faulty variant: a content type that is neither multipart nor JSON is treated
\* as a request without an image instead of being refused with 415
parse_image_No415(in) ==
    LET none == [outcome |-> "ok", image_bytes |-> Null, image_data_url |-> Null,
                 original_filename |-> Null, exc |-> "none"]
    IN  IF IsMultipart(in)
        THEN IF in.file \notin {Absent, ""}
             THEN [none EXCEPT !.image_bytes = file_read(in.file),
                               !.original_filename = in.file]
             ELSE none
        ELSE IF IsJson(in)
        THEN LET b64 == JsonGet(in, in.b64)
                 url == JsonGet(in, in.url)
             IN  IF b64 \notin {Absent, ""}
                 THEN IF b64decode(strip_data_prefix(b64)) = "error"
                      THEN [none EXCEPT !.outcome = "exc", !.exc = "binascii.Error"]
                      ELSE [none EXCEPT !.image_bytes = b64decode(strip_data_prefix(b64))]
                 ELSE IF url \notin {Absent, ""}
                 THEN [none EXCEPT !.image_data_url = url]
                 ELSE none
        ELSE none

\* the image input: [outcome, image_bytes, image_data_url, original_filename]
\* outcome "415": neither multipart nor JSON; "exc": b64decode raised
parse_image(in) ==
    LET none == [outcome |-> "ok", image_bytes |-> Null, image_data_url |-> Null,
                 original_filename |-> Null, exc |-> "none"]
    IN  IF IsMultipart(in)
        THEN IF in.file \notin {Absent, ""}
             THEN [none EXCEPT !.image_bytes = file_read(in.file),
                               !.original_filename = in.file]
             ELSE none
        ELSE IF IsJson(in)
        THEN LET b64 == JsonGet(in, in.b64)
                 url == JsonGet(in, in.url)
             IN  IF b64 \notin {Absent, ""}
                 THEN IF b64decode(strip_data_prefix(b64)) = "error"
                      THEN [none EXCEPT !.outcome = "exc", !.exc = "binascii.Error"]
                      ELSE [none EXCEPT !.image_bytes = b64decode(strip_data_prefix(b64))]
                 ELSE IF url \notin {Absent, ""}
                 THEN [none EXCEPT !.image_data_url = url]
                 ELSE none
        ELSE [none EXCEPT !.outcome = "415"]

\* the image_url forwarded to the remote service: the caller's URL, or the
\* bytes wrapped as a data URI
forward_url(img) ==
    IF img.image_data_url = Null /\ img.image_bytes # Null
    THEN data_url(img.image_bytes)
    ELSE img.image_data_url

\* the JSON payload of the create call (app_flask.py:238-244)
payload_of(in) ==
    [image_url |-> forward_url(parse_image(in)),
     enable_pbr |-> get_flag(in, 1),
     should_remesh |-> get_flag(in, 2),
     should_texture |-> get_flag(in, 3),
     ai_model |-> validate_ai_model(ai_model_raw(in))]

NoPayload ==
    [image_url |-> Null, enable_pbr |-> FALSE, should_remesh |-> FALSE,
     should_texture |-> FALSE, ai_model |-> Null]

----------------------------------------------------------------------------
(* Responses *)

NoResp == [code |-> 0, body |-> EmptyObj]

Resp(code, body) == [code |-> code, body |-> body]

ErrorBody(msg) == [k \in {"error"} |-> msg]

\* `except RuntimeError as re`: 500 with the exception's message
ConfigError == Resp(500, ErrorBody(ConfigMsg))

\* `except Exception as e`: 500 "Internal server error" with str(e)
InternalError(exc) ==
    Resp(500, [error |-> "Internal server error", detail |-> <<"exc", exc>>])

NoImageMsg ==
    "No image provided. Use multipart 'image' or JSON 'image_base64'/'image_url'."

----------------------------------------------------------------------------
(* The remote service, as the handlers see it *)

\* an HTTP exchange with the remote service: kind "none" (no call made),
\* "raise" (requests raised: timeout, connection error) or "http" (a
\* response with a status code and a body that is JSON or not)
UpNone == [kind |-> "none", code |-> 0, body |-> "none", data |-> EmptyObj]

UpRaise == [kind |-> "raise", code |-> 0, body |-> "none", data |-> EmptyObj]

UpHttp(code, body, data) == [kind |-> "http", code |-> code, body |-> body, data |-> data]

\* requests.Response.ok: the status code is below 400
Ok(up) == up.kind = "http" /\ up.code < 400

\* status codes of upstream failures
UpErrCodes == {404, 503}

\* the upstream error responses tried: one with a JSON body, one without
UpErrors ==
    { UpHttp(404, "json", [message |-> "upstream failure"]),
      UpHttp(503, "text", EmptyObj) }

\* the identifier the remote service gives its next job, Null when the
\* run's jobs are used up
NextTaskId ==
    LET n == Cardinality({t \in DOMAIN remote : remote[t] # "none"})
    IN  IF n < Cardinality(DOMAIN remote) THEN TaskIdOf[n + 1] ELSE Null

\* answers of the create endpoint: a failure, a success whose body is not
\* JSON, a JSON success without a usable "result", a success with a fresh
\* task identifier
CreateResponses ==
    {UpRaise} \cup UpErrors
    \cup { UpHttp(200, "text", EmptyObj), UpHttp(200, "json", EmptyObj),
           UpHttp(200, "json", [result |-> ""]) }
    \cup (IF NextTaskId = Null THEN {}
          ELSE { UpHttp(200, "json", [result |-> NextTaskId]) })

Progress(st) == IF st = "PENDING" THEN "0" ELSE "100"

\* model_urls of a job object: an object with a glb URL, or one without
ModelUrls == {"{glb}", "{}"}

\* answers of the status endpoint for task t: a failure, a non-JSON
\* success, an empty JSON success, or the job object of an existing job
StatusResponses(t) ==
    {UpRaise} \cup UpErrors
    \cup { UpHttp(200, "text", EmptyObj), UpHttp(200, "json", EmptyObj) }
    \cup (IF t \in DOMAIN remote /\ remote[t] # "none"
          THEN { UpHttp(200, "json",
                        [id |-> t, status |-> remote[t],
                         progress |-> Progress(remote[t]), model_urls |-> mu]) :
                 mu \in ModelUrls }
          ELSE {})

\* answers of the model URL: the body is a binary glTF model or something
\* else (an error page), whatever the status code
FetchResponses ==
    { UpRaise, UpHttp(200, "glb", EmptyObj), UpHttp(200, "junk", EmptyObj) }
    \cup { UpHttp(c, "junk", EmptyObj) : c \in UpErrCodes }

\* (model_urls or {}).get("glb")
glb_of(mu) == IF mu = "{glb}" THEN "http://assets/model.glb" ELSE Null

\* detail of a relayed failure: resp.json(), or {"text": resp.text}
Detail(up) ==
    IF up.body = "json" THEN <<"json", up.data>> ELSE <<"text", "raw upstream body">>

----------------------------------------------------------------------------
(* Request slots *)

Idle ==
    [op |-> "none", pc |-> "idle", in |-> NoInput, upload |-> "none",
     sent |-> NoPayload, calls |-> [create |-> 0, status |-> 0, fetch |-> 0],
     up_create |-> UpNone, up_status |-> UpNone, up_fetch |-> UpNone,
     asked |-> Null, task_id |-> Null, meta |-> "none", resp |-> NoResp]

\* faulty variant: an upstream failure is not returned; the handler stays where it
\* is and makes the call again
Return_Retry(q, resp) ==
    IF resp.code \in UpErrCodes
    THEN [q EXCEPT !.resp = resp]
    ELSE [q EXCEPT !.pc = "done", !.resp = resp]

\* the handler returns `resp`
Return(q, resp) == [q EXCEPT !.pc = "done", !.resp = resp]

\* the server hands the request to a free handler slot (the first one:
\* the slots are alike) whatever the other slots are doing
CanAccept(r) ==
    /\ req[r].pc = "idle"
    /\ \A q \in Reqs : q < r => req[q].pc # "idle"

----------------------------------------------------------------------------
(* POST /api/process-image *)

\* what process_image answers before it reaches the remote call, NoResp
\* when it goes on to the call
early_response(in) ==
    IF json_access_exc(in) # "none" THEN InternalError(json_access_exc(in))
    ELSE IF parse_image(in).outcome = "415"
    THEN Resp(415, ErrorBody("Unsupported content type"))
    ELSE IF parse_image(in).outcome = "exc" THEN InternalError(parse_image(in).exc)
    ELSE IF parse_image(in).image_bytes = Null /\ parse_image(in).image_data_url = Null
    THEN Resp(400, ErrorBody(NoImageMsg))
    ELSE NoResp

\* what process_image answers to the outcome of the create call, NoResp
\* when the call returned a task identifier and _save_meta comes next
create_response(up) ==
    IF up.kind = "raise" THEN InternalError("RequestException")
    ELSE IF ~Ok(up)
    THEN Resp(up.code, [error |-> "Meshy create failed", detail |-> Detail(up)])
    ELSE IF up.body # "json" THEN InternalError("JSONDecodeError")
    ELSE IF Get(up.data, "result") \in {Null, ""}
    THEN Resp(502, [error |-> "Invalid Meshy response", detail |-> Detail(up)])
    ELSE NoResp

\* a request out of `inputs` arrives: flags, ai_model and image are parsed,
\* an uploaded image is written to UPLOADS_DIR (a failure of that write is
\* swallowed)
ProcessImage(r, inputs) ==
    /\ CanAccept(r)
    /\ \E in \in inputs :
         LET q == [Idle EXCEPT !.op = "process_image", !.in = in]
         IN  IF early_response(in) # NoResp
             THEN req' = [req EXCEPT ![r] = Return(q, early_response(in))]
             ELSE \E saved \in {"saved", "failed"} :
                    req' = [req EXCEPT ![r] =
                              [q EXCEPT !.pc = "create",
                                        !.upload =
                                            IF parse_image(in).image_bytes # Null
                                            THEN saved ELSE "none"]]
    /\ UNCHANGED <<api_key, remote, meta_dirs, meta_log, viewer_vars>>

\* requests.post(MESHY_API_URL, headers=_meshy_headers(), json=payload):
\* the headers are built first, then the one call is made
CallCreate(r) ==
    /\ req[r].pc = "create"
    /\ IF ~KeyConfigured
       THEN /\ req' = [req EXCEPT ![r] = Return(@, ConfigError)]
            /\ UNCHANGED remote
       ELSE \E up \in CreateResponses :
              LET q == [req[r] EXCEPT !.calls.create = @ + 1,
                                      !.sent = payload_of(req[r].in),
                                      !.up_create = up]
              IN  IF create_response(up) # NoResp
                  THEN /\ req' = [req EXCEPT ![r] = Return(q, create_response(up))]
                       /\ UNCHANGED remote
                  ELSE /\ req' = [req EXCEPT ![r] =
                                    [q EXCEPT !.pc = "save_meta",
                                              !.task_id = up.data.result]]
                       /\ remote' = [remote EXCEPT ![up.data.result] = "PENDING"]
    /\ UNCHANGED <<api_key, meta_dirs, meta_log, viewer_vars>>

\* the content _save_meta is given (app_flask.py:258-269)
meta_of(in) ==
    [original_filename |-> parse_image(in).original_filename,
     options |-> [enable_pbr |-> get_flag(in, 1),
                  should_remesh |-> get_flag(in, 2),
                  should_texture |-> get_flag(in, 3),
                  ai_model |-> validate_ai_model(ai_model_raw(in))]]

\* the keys of "options" in the order json.dump writes them (the order of
\* the dict literal, lines 262-267)
OptionKeys == <<"enable_pbr", "should_remesh", "should_texture", "ai_model">>

\* the places where the text of meta.json can end when the write stops part
\* way: before any value is complete (0), after original_filename (1),
\* inside "options" after j of its values but the last (2 + j).  A write
\* that stops before its first byte leaves no text, as a failed open()
\* does, and one that stops behind the last value leaves every value, as
\* the whole text does
Cuts == 0..(1 + Len(OptionKeys))

\* the values complete in meta.json when its text ends at the cut
truncated(meta, cut) ==
    IF cut = 0 THEN EmptyObj
    ELSE IF cut = 1
    THEN [k \in {"original_filename"} |-> meta.original_filename]
    ELSE [original_filename |-> meta.original_filename,
          options |-> [k \in {OptionKeys[j] : j \in 1..(cut - 2)} |-> meta.options[k]]]

\* what becomes of meta.json in _save_meta (lines 64-68): open() fails and
\* there is no text; the write stops part way (the disk is full, the file
\* size limit is reached) and leaves the text up to a cut; or the whole
\* text is written
meta_writes(meta) ==
    [open_failed |-> {<<>>},
     dump_failed |-> {<<truncated(meta, cut)>> : cut \in Cuts},
     written |-> {<<meta>>}]

\* what process_image answers after _save_meta: os.makedirs is outside the
\* try block, so its failure reaches `except Exception`; a failure of
\* open() or json.dump() is logged and swallowed
save_meta_response(outcome, task_id) ==
    IF outcome = "mkdir_failed" THEN InternalError("OSError")
    ELSE Resp(202, [k \in {"task_id"} |-> task_id])

\* _save_meta(task_id, meta), then `return jsonify({"task_id": task_id}), 202`:
\* the directory cannot be made; or it is there and meta.json becomes one
\* of meta_writes
SaveMeta(r) ==
    /\ req[r].pc = "save_meta"
    /\ \/ /\ req' = [req EXCEPT ![r] =
                       Return([@ EXCEPT !.meta = "mkdir_failed"],
                              save_meta_response("mkdir_failed", req[r].task_id))]
          /\ UNCHANGED <<meta_dirs, meta_log>>
       \/ \E outcome \in {"open_failed", "dump_failed", "written"} :
            \E text \in meta_writes(meta_of(req[r].in))[outcome] :
              /\ req' = [req EXCEPT ![r] =
                           Return([@ EXCEPT !.meta = outcome],
                                  save_meta_response(outcome, req[r].task_id))]
              /\ meta_dirs' = meta_dirs \cup {req[r].task_id}
              /\ meta_log' = [meta_log EXCEPT ![req[r].task_id] = @ \o text]
    /\ UNCHANGED <<api_key, remote, viewer_vars>>

----------------------------------------------------------------------------
(* GET /api/status/<task_id> *)

\* the fields get_status passes through
StatusKeys == {"status", "progress", "message", "model_urls"}

\* faulty variant: the whole upstream job object is passed on
status_response_WholeBody(up) ==
    IF up.kind = "raise" THEN InternalError("RequestException")
    ELSE IF ~Ok(up)
    THEN Resp(up.code, [error |-> "Meshy status failed", detail |-> Detail(up)])
    ELSE IF up.body # "json" THEN InternalError("JSONDecodeError")
    ELSE Resp(200, up.data)

\* what get_status answers to the outcome of the status call
status_response(up) ==
    IF up.kind = "raise" THEN InternalError("RequestException")
    ELSE IF ~Ok(up)
    THEN Resp(up.code, [error |-> "Meshy status failed", detail |-> Detail(up)])
    ELSE IF up.body # "json" THEN InternalError("JSONDecodeError")
    ELSE Resp(200, [k \in StatusKeys |-> Get(up.data, k)])

\* the whole handler: headers, one GET of MESHY_API_URL/<task_id>, response
GetStatus(r, ids) ==
    /\ CanAccept(r)
    /\ \E t \in ids :
         LET q == [Idle EXCEPT !.op = "status", !.in = [NoInput EXCEPT !.task = t]]
         IN  IF ~KeyConfigured
             THEN req' = [req EXCEPT ![r] = Return(q, ConfigError)]
             ELSE \E up \in StatusResponses(t) :
                    req' = [req EXCEPT ![r] =
                              Return([q EXCEPT !.calls.status = @ + 1, !.asked = t,
                                               !.up_status = up],
                                     status_response(up))]
    /\ UNCHANGED <<api_key, remote, meta_dirs, meta_log, viewer_vars>>

----------------------------------------------------------------------------
(* GET /api/result/<task_id>?format=... *)

\* values of the format query parameter
FmtValues == {Absent, "glb", "obj", "Ply", "XYZ"}

\* faulty variant: one more format is let through
AllowedFormats_Wide == {"glb", "obj", "ply", "xyz"}

AllowedFormats == {"glb", "obj", "ply"}

\* (request.args.get("format") or "glb").lower()
fmt_of(raw) == Lower(IF raw \in {Absent, ""} THEN "glb" ELSE raw)

UnsupportedFormat ==
    Resp(400, [error |-> "Unsupported format", allowed |-> <<"glb", "obj", "ply">>])

\* faulty variant: the job's status is not looked at, only the glb URL
result_status_response_NoStatusCheck(up) ==
    IF up.kind = "raise" THEN InternalError("RequestException")
    ELSE IF ~Ok(up)
    THEN Resp(up.code, ErrorBody("Failed to get status from Meshy"))
    ELSE IF up.body # "json" THEN InternalError("JSONDecodeError")
    ELSE IF glb_of(Get(up.data, "model_urls")) = Null
    THEN Resp(502, ErrorBody("GLB URL missing in Meshy response"))
    ELSE NoResp

\* what get_result answers to the outcome of its status call, NoResp when
\* the job succeeded with a glb URL and the model is fetched next
result_status_response(up) ==
    IF up.kind = "raise" THEN InternalError("RequestException")
    ELSE IF ~Ok(up)
    THEN Resp(up.code, ErrorBody("Failed to get status from Meshy"))
    ELSE IF up.body # "json" THEN InternalError("JSONDecodeError")
    ELSE IF Get(up.data, "status") # "SUCCEEDED"
    THEN Resp(409, [error |-> "Job not completed", status |-> Get(up.data, "status")])
    ELSE IF glb_of(Get(up.data, "model_urls")) = Null
    THEN Resp(502, ErrorBody("GLB URL missing in Meshy response"))
    ELSE NoResp

\* the request arrives: the format is checked, then the status is asked
GetResult(r, ids, fmts) ==
    /\ CanAccept(r)
    /\ \E t \in ids, f \in fmts :
         LET q == [Idle EXCEPT !.op = "result",
                               !.in = [NoInput EXCEPT !.task = t, !.fmt = f]]
         IN  IF fmt_of(f) \notin AllowedFormats
             THEN req' = [req EXCEPT ![r] = Return(q, UnsupportedFormat)]
             ELSE IF ~KeyConfigured
             THEN req' = [req EXCEPT ![r] = Return(q, ConfigError)]
             ELSE \E up \in StatusResponses(t) :
                    LET q2 == [q EXCEPT !.calls.status = @ + 1, !.asked = t,
                                        !.up_status = up]
                    IN  req' = [req EXCEPT ![r] =
                                  IF result_status_response(up) # NoResp
                                  THEN Return(q2, result_status_response(up))
                                  ELSE [q2 EXCEPT !.pc = "fetch"]]
    /\ UNCHANGED <<api_key, remote, meta_dirs, meta_log, viewer_vars>>

\* send_file(...) of the bytes under the given mimetype and download name
FileResp(bytes, mimetype, name) ==
    Resp(200, [file |-> bytes, mimetype |-> mimetype, download_name |-> name])

\* what get_result answers once requests.get(model_url).content returned:
\* the status code of that response is not looked at; glb is passed
\* through, obj and ply go through trimesh (conv: whether load and export
\* succeed, which they cannot on bytes that are no glTF model)
fetch_response(up, fmt, task, conv) ==
    IF up.kind = "raise" THEN InternalError("RequestException")
    ELSE IF fmt = "glb"
    THEN FileResp(up.body, "model/gltf-binary", <<task, "glb">>)
    ELSE IF up.body # "glb" \/ ~conv
    THEN Resp(500, [error |-> <<"Conversion failed", fmt>>,
                    detail |-> <<"exc", "trimesh">>])
    ELSE FileResp(<<"converted", fmt>>, "application/octet-stream", <<task, fmt>>)

\* glb_bytes = requests.get(model_url, timeout=180).content, then the
\* conversion and the response
FetchModel(r) ==
    /\ req[r].pc = "fetch"
    /\ \E up \in FetchResponses, conv \in BOOLEAN :
         req' = [req EXCEPT ![r] =
                   Return([@ EXCEPT !.calls.fetch = @ + 1, !.up_fetch = up],
                          fetch_response(up, fmt_of(req[r].in.fmt),
                                         req[r].in.task, conv))]
    /\ UNCHANGED <<api_key, remote, meta_dirs, meta_log, viewer_vars>>

----------------------------------------------------------------------------
(* Environment *)

\* the response has been sent; the slot is free for the next request
Finish(r) ==
    /\ req[r].pc = "done"
    /\ req' = [req EXCEPT ![r] = Idle]
    /\ UNCHANGED <<api_key, remote, meta_dirs, meta_log, viewer_vars>>

\* the remote service works on a job
RemoteProgress(t) ==
    /\ remote[t] = "PENDING"
    /\ \E st \in {"SUCCEEDED", "FAILED"} : remote' = [remote EXCEPT ![t] = st]
    /\ UNCHANGED <<api_key, req, meta_dirs, meta_log, viewer_vars>>

----------------------------------------------------------------------------
(* Viewer: downsample(pts, cols, max_points) (360view_direct.py:67-74) *)

\* the viewer is not running
DsIdle == [pc |-> "idle"]

\* positions and colors a cloud is made of (two of each, so that equal
\* points at different indices occur)
PointValues == {"p", "q"}

ColorValues == {"red", "blue"}

SeqsUpTo(S, n) == UNION { [1..k -> S] : k \in 0..n }

\* the calls tried: a cloud of up to MaxPoints points, without colors
\* (cols is None) or with one color per point, and a target count
DsInputs ==
    { [pc |-> "ready", pts |-> ps, has_cols |-> hc, cols |-> cs, max_points |-> n,
       idx |-> <<>>, out_pts |-> <<>>, out_has_cols |-> FALSE, out_cols |-> <<>>] :
        ps \in SeqsUpTo(PointValues, MaxPoints), hc \in BOOLEAN,
        cs \in SeqsUpTo(ColorValues, MaxPoints), n \in 0..MaxPoints }

\* load_ply gives one color per vertex, or no colors at all
WellFormedCloud(d) ==
    IF d.has_cols THEN Len(d.cols) = Len(d.pts) ELSE d.cols = <<>>

\* faulty variant: the indices are drawn with replacement
choice_with_replacement(m, n) == [1..n -> 1..m]

\* np.random.choice(m, n, replace=False): the index arrays it may return:
\* n different indices of the cloud, in any order (indices count from 1 here)
choice(m, n) ==
    { ix \in [1..n -> 1..m] : \A i, j \in 1..n : i # j => ix[i] # ix[j] }

\* a[idx]: the elements of a at the indices idx, in the order of idx
take(a, idx) == [i \in 1..Len(idx) |-> a[idx[i]]]

\* one call of downsample
Downsample ==
    /\ ds.pc = "ready"
    /\ IF Len(ds.pts) > ds.max_points
       THEN \E idx \in choice(Len(ds.pts), ds.max_points) :
              ds' = [ds EXCEPT !.pc = "done", !.idx = idx,
                               !.out_pts = take(ds.pts, idx),
                               !.out_has_cols = ds.has_cols,
                               !.out_cols = IF ds.has_cols THEN take(ds.cols, idx)
                                            ELSE <<>>]
       ELSE ds' = [ds EXCEPT !.pc = "done", !.out_pts = ds.pts,
                             !.out_has_cols = ds.has_cols, !.out_cols = ds.cols]
    /\ UNCHANGED <<proxy_vars, cam, vw>>

----------------------------------------------------------------------------
(* Viewer: lock_vertical_rotation, the animation callback of the           *)
(* horizontal-only mode (360view_direct.py:184-229)                        *)
(*                                                                         *)
(* A float of the camera's rotation is kept as a pair <<a, e>> of integers *)
(* standing for a/Unit + (e/Unit) * 1e-10: the value, and its first-order  *)
(* offset in the 1e-10 that the code adds to the norms it divides by.      *)
(* Terms in 1e-20 are below the resolution of a double next to 1 and are   *)
(* dropped.  The cameras tried are made of 3-4-5 angles, for which every   *)
(* square root and quotient below is an integer.                           *)

\* the integer that stands for 1.0
Unit == 300

Num(a) == <<a, 0>>

Zero == Num(0)

One == Num(Unit)

\* the 1e-10 of lines 215 and 219
Eps == <<0, Unit>>

Neg(x) == <<-x[1], -x[2]>>

Add(x, y) == <<x[1] + y[1], x[2] + y[2]>>

Sub(x, y) == <<x[1] - y[1], x[2] - y[2]>>

\* p / q rounded to the nearest integer, for q > 0
RoundDiv(p, q) ==
    IF p >= 0 THEN (2 * p + q) \div (2 * q) ELSE -((2 * (-p) + q) \div (2 * q))

Mul(x, y) == <<RoundDiv(x[1] * y[1], Unit), RoundDiv(x[1] * y[2] + x[2] * y[1], Unit)>>

\* x < 0
Negative(x) == x[1] < 0 \/ (x[1] = 0 /\ x[2] < 0)

\* integer square root
Isqrt(n) == CHOOSE r \in 0..(4 * Unit) : r * r <= n /\ n < (r + 1) * (r + 1)

\* x / n; a divisor of order 1e-10 is met only with a dividend of order
\* 1e-10 (the divisor is 1e-10 plus the norm of the dividend's vector)
quot(x, n) ==
    IF n[1] # 0
    THEN <<RoundDiv(x[1] * Unit, n[1]),
           RoundDiv(x[2] * Unit, n[1]) - RoundDiv(x[1] * n[2] * Unit, n[1] * n[1])>>
    ELSE <<RoundDiv(x[2] * Unit, n[2]), 0>>

\* np.linalg.norm of a vector
norm(v) ==
    LET A == v[1][1] * v[1][1] + v[2][1] * v[2][1] + v[3][1] * v[3][1]
        B == v[1][1] * v[1][2] + v[2][1] * v[2][2] + v[3][1] * v[3][2]
        E == v[1][2] * v[1][2] + v[2][2] * v[2][2] + v[3][2] * v[3][2]
    IN  IF A > 0 THEN <<Isqrt(A), RoundDiv(B, Isqrt(A))>> ELSE <<0, Isqrt(E)>>

\* v / n, component by component
vquot(v, n) == <<quot(v[1], n), quot(v[2], n), quot(v[3], n)>>

\* np.cross
cross(u, v) ==
    <<Sub(Mul(u[2], v[3]), Mul(u[3], v[2])),
      Sub(Mul(u[3], v[1]), Mul(u[1], v[3])),
      Sub(Mul(u[1], v[2]), Mul(u[2], v[1]))>>

\* faulty variant: the up axis is always turned to +Y
up_sign_AlwaysUp(y) == One

\* -1.0 if up[1] < 0 else 1.0  (line 207)
up_sign(y) == IF Negative(y) THEN Neg(One) ELSE One

\* the transform the callback writes back for the transform `extrinsic` it
\* read, with the height `y0` captured at activation.  R is extrinsic[:3,:3],
\* R[i][j] its row i and column j; up, forward and right are its columns
\* 2, 3 and 1 (R[:, 1], R[:, 2], R[:, 0] in the code's indices from 0)
lock_vertical_rotation(extrinsic, y0) ==
    LET R == extrinsic.R
        up0 == <<Zero, up_sign(R[2][2]), Zero>>
        up == vquot(up0, norm(up0))
        forward0 == <<R[1][3], Zero, R[3][3]>>
        forward == vquot(forward0, Add(norm(forward0), Eps))
        right0 == cross(up, forward)
        right == vquot(right0, Add(norm(right0), Eps))
    IN  [R |-> <<<<right[1], up[1], forward[1]>>,
                 <<right[2], up[2], forward[2]>>,
                 <<right[3], up[3], forward[3]>>>>,
         t |-> [extrinsic.t EXCEPT ![2] = y0]]

\* angles as <<sin, cos>>: 0, 36.87, 90, 180 and -53.13 degrees
Angles == {<<0, Unit>>, <<180, 240>>, <<Unit, 0>>, <<0, -Unit>>, <<-240, 180>>}

\* rotations about the X, Y and Z axes
Rx(a) ==
    <<<<One, Zero, Zero>>,
      <<Zero, Num(a[2]), Num(-a[1])>>,
      <<Zero, Num(a[1]), Num(a[2])>>>>

Ry(a) ==
    <<<<Num(a[2]), Zero, Num(a[1])>>,
      <<Zero, One, Zero>>,
      <<Num(-a[1]), Zero, Num(a[2])>>>>

Rz(a) ==
    <<<<Num(a[2]), Num(-a[1]), Zero>>,
      <<Num(a[1]), Num(a[2]), Zero>>,
      <<Zero, Zero, One>>>>

\* entry (i, j) of the product A @ B
dot(A, B, i, j) ==
    Add(Add(Mul(A[i][1], B[1][j]), Mul(A[i][2], B[2][j])), Mul(A[i][3], B[3][j]))

matmul(A, B) ==
    <<<<dot(A, B, 1, 1), dot(A, B, 1, 2), dot(A, B, 1, 3)>>,
      <<dot(A, B, 2, 1), dot(A, B, 2, 2), dot(A, B, 2, 3)>>,
      <<dot(A, B, 3, 1), dot(A, B, 3, 2), dot(A, B, 3, 3)>>>>

\* np.eye(3)
Identity == <<<<One, Zero, Zero>>, <<Zero, One, Zero>>, <<Zero, Zero, One>>>>

\* the rotations mouse input leaves the camera with: a yaw, a pitch (up to
\* straight up and straight down) and a roll of 0, 90 or 180 degrees
Rotations ==
    { matmul(Ry(y), matmul(Rx(p), Rz(r))) :
        y \in Angles, p \in Angles \cup {<<-Unit, 0>>},
        r \in {<<0, Unit>>, <<Unit, 0>>, <<0, -Unit>>} }

\* the translations mouse input leaves the camera with
Translations == { <<0, y, z>> : y \in {0, 1}, z \in {-1, 0} }

\* --distance
Distances == {0, 1}

\* no event loop is running in the horizontal-only mode
CamIdle == [pc |-> "idle"]

\* the camera show_open3d_viewer sets up (lines 153-181): identity
\* rotation, t = -R @ (0, 0, distance); initial_y is extrinsic[1, 3] of it
Activated(d) ==
    LET e == [R |-> Identity, t |-> <<0, 0, -d>>]
    IN  [pc |-> "running", initial_y |-> e.t[2], extrinsic |-> e,
         ticks |-> 0, tick_in |-> e, once |-> e]

\* the user turns or moves the camera between two frames
UserInput ==
    /\ cam.pc = "running"
    /\ \E R \in Rotations, t \in Translations :
         LET e == [R |-> R, t |-> t]
         IN  cam' = [cam EXCEPT !.extrinsic = e, !.ticks = 0,
                                !.tick_in = e, !.once = e]
    /\ UNCHANGED <<proxy_vars, ds, vw>>

\* one frame: the callback reads the camera, corrects it and writes it back;
\* tick_in and once keep the transform before and after the first tick
\* that follows a user input
LimiterTick ==
    /\ cam.pc = "running"
    /\ cam.ticks < MaxTicks
    /\ LET out == lock_vertical_rotation(cam.extrinsic, cam.initial_y)
       IN  cam' = [cam EXCEPT !.extrinsic = out, !.ticks = @ + 1,
                              !.tick_in = IF cam.ticks = 0 THEN cam.extrinsic ELSE @,
                              !.once = IF cam.ticks = 0 THEN out ELSE @]
    /\ UNCHANGED <<proxy_vars, ds, vw>>

----------------------------------------------------------------------------
(* Viewer: main() (360view_direct.py:252-392) *)

\* the viewer has not been started
VwIdle == [pc |-> "idle"]

\* the runs tried: the --ply file exists or not and holds 0..MaxPoints
\* vertices; --points is any integer from -1 to MaxPoints; --horizontal-only
\* is given or not, with a --distance; the current directory of the process
\* still exists or has been removed.  n is the size of the cloud in hand,
\* ran the stages entered so far, window whether create_window was reached,
\* raised the exception that ended the run, code the value main returned
VwInputs ==
    { [pc |-> "load_ply", exists |-> ex, vertices |-> nv, points |-> mp,
       horizontal_only |-> h, distance |-> d, cwd |-> cw,
       n |-> 0, ran |-> <<>>, window |-> FALSE, raised |-> "none", code |-> "none"] :
        ex \in BOOLEAN, nv \in 0..MaxPoints, mp \in (-1)..MaxPoints,
        h \in BOOLEAN, d \in Distances, cw \in BOOLEAN }

\* exceptions a stage may end with: the two classes main has a clause for
\* (Exception stands for any subclass of it but FileNotFoundError) and one
\* that is no subclass of Exception
Raisable == {"FileNotFoundError", "Exception", "KeyboardInterrupt"}

\* lines 381-390, the ways main ends when the try block raised exc.  An
\* exception that is no Exception leaves main through neither clause.  The
\* clauses print to stdout (lines 382-384, 387) and `except Exception`
\* calls traceback.print_exc() (line 389): when the stream cannot be
\* written (its reader is gone, it is closed) the call raises an Exception
\* inside the clause, which leaves main, as does an interrupt arriving
\* there.  `except FileNotFoundError` prints Path.cwd() (line 383), which
\* itself raises FileNotFoundError when the current directory is gone.
\* Otherwise the clause returns 1
except_clauses(v, exc) ==
    IF exc \notin {"FileNotFoundError", "Exception"}
    THEN {[v EXCEPT !.pc = "propagated", !.raised = exc]}
    ELSE {[v EXCEPT !.pc = "propagated", !.raised = in_clause] :
              in_clause \in {"Exception", "KeyboardInterrupt"}}
         \cup
         (IF exc = "FileNotFoundError" /\ ~v.cwd
          THEN {[v EXCEPT !.pc = "propagated", !.raised = "FileNotFoundError"]}
          ELSE {[v EXCEPT !.pc = "returned", !.raised = exc, !.code = "1"]})

\* load_ply(args.ply): the existence check, then trimesh.load, the reading
\* of vertices and colors and the print of line 63, which succeed or raise
\* (the file may be unreadable, malformed, or gone since the check; stdout
\* may not be writable).  Before anything is
\* loaded an interrupt may arrive, and Path.exists() (line 52) itself
\* raises an OSError for a path that cannot be examined (no permission,
\* a name too long)
LoadPly ==
    /\ vw.pc = "load_ply"
    /\ \/ \E exc \in {"KeyboardInterrupt", "Exception"} :
            vw' \in except_clauses(vw, exc)
       \/ IF ~vw.exists
          THEN vw' \in except_clauses(vw, "FileNotFoundError")
          ELSE LET v == [vw EXCEPT !.ran = Append(@, "load")]
               IN  \/ vw' = [v EXCEPT !.pc = "downsample", !.n = vw.vertices]
                   \/ \E exc \in Raisable : vw' \in except_clauses(v, exc)
    /\ UNCHANGED <<proxy_vars, ds, cam>>

\* downsample(pts, cols, args.points): a cloud within the limit is passed
\* on as it is; for a larger one the print of line 70 raises when stdout
\* cannot be written, np.random.choice raises ValueError for a negative
\* count, and else the cloud is cut to the limit; an interrupt may arrive
\* at any line
DownsampleStage ==
    /\ vw.pc = "downsample"
    /\ LET v == [vw EXCEPT !.ran = Append(@, "downsample")]
       IN  \/ vw' \in except_clauses(v, "KeyboardInterrupt")
           \/ /\ vw.n > vw.points
              /\ vw' \in except_clauses(v, "Exception")
           \/ /\ vw.n > vw.points /\ vw.points >= 0
              /\ vw' = [v EXCEPT !.pc = "show", !.n = vw.points]
           \/ /\ vw.n <= vw.points
              /\ vw' = [v EXCEPT !.pc = "show"]
    /\ UNCHANGED <<proxy_vars, ds, cam>>

\* show_open3d_viewer(pts, cols, args) up to vis.run() (lines 80-245).
\* Before the window (lines 80-117: the prints, the bounding box, the
\* PointCloud, the Visualizer) the stage may raise, and does for an empty
\* cloud, whose pts.min(axis=0) raises ValueError, unless an interrupt
\* came first.  With the window created, the set-up of the rendering, the
\* camera and the callback (lines 118-245) may raise as well; otherwise
\* the event loop is entered, in horizontal-only mode with the camera of
\* lines 153-187
ShowViewer ==
    /\ vw.pc = "show"
    /\ LET v == [vw EXCEPT !.ran = Append(@, "show")]
           w == [v EXCEPT !.window = TRUE]
       IN  \/ /\ \E exc \in Raisable :
                    /\ vw.n = 0 => exc # "FileNotFoundError"
                    /\ vw' \in except_clauses(v, exc)
              /\ cam' = cam
           \/ /\ vw.n > 0
              /\ \E exc \in Raisable : vw' \in except_clauses(w, exc)
              /\ cam' = cam
           \/ /\ vw.n > 0
              /\ vw' = [w EXCEPT !.pc = "run"]
              /\ cam' = IF vw.horizontal_only THEN Activated(vw.distance) ELSE cam
    /\ UNCHANGED <<proxy_vars, ds>>

\* vis.run() returns when the user closes the window, or raises; then
\* destroy_window and `return 0` (lines 247-249, 392)
CloseViewer ==
    /\ vw.pc = "run"
    /\ \/ vw' = [vw EXCEPT !.pc = "returned", !.code = "0"]
       \/ \E exc \in Raisable : vw' \in except_clauses(vw, exc)
    /\ cam' = CamIdle
    /\ UNCHANGED <<proxy_vars, ds>>

----------------------------------------------------------------------------
(* The proxy's specification.  The server gives every request a thread of  *)
(* its own and the handlers take no lock, so every handler slot may be     *)
(* busy at once and the steps of the handlers interleave freely, while the *)
(* remote service moves its jobs on in between.  Every request of          *)
(* ProcessInputs, PathIds and FmtValues arrives, and each is answered by   *)
(* the remote service in every way of CreateResponses, StatusResponses     *)
(* and FetchResponses.                                                     *)

InitProxy ==
    /\ api_key \in {Null, "", "msy_key"}
    /\ req = [r \in Reqs |-> Idle]
    /\ remote = [t \in TaskIds |-> "none"]
    /\ meta_dirs = {}
    /\ meta_log = [t \in TaskIds |-> <<>>]

Init == InitProxy /\ ds = DsIdle /\ cam = CamIdle /\ vw = VwIdle

Next ==
    \/ \E r \in Reqs : ProcessImage(r, ProcessInputs)
    \/ \E r \in Reqs : CallCreate(r)
    \/ \E r \in Reqs : SaveMeta(r)
    \/ \E r \in Reqs : GetStatus(r, PathIds)
    \/ \E r \in Reqs : GetResult(r, PathIds, FmtValues)
    \/ \E r \in Reqs : FetchModel(r)
    \/ \E r \in Reqs : Finish(r)
    \/ \E t \in TaskIds : RemoteProgress(t)

Spec == Init /\ [][Next]_vars

----------------------------------------------------------------------------
(* The proxy with one job more than in the specification above, so that   *)
(* two requests may each have a job created while their handlers           *)
(* interleave.  So that the remote service of this size can be explored,   *)
(* the requests that arrive are few: the process-image requests of         *)
(* ConcInputs, and status and result requests for the first task, the      *)
(* result in the format of ConcFmts.  Every request is answered in every   *)
(* way, as in Spec.                                                        *)

\* number of jobs the remote service creates in a concurrent run
ConcTasks == MaxTasks + 1

ConcTaskIds == {TaskIdOf[i] : i \in 1..ConcTasks}

\* two JSON requests by URL with all flags set, one with an ai_model that
\* is replaced and one with an ai_model that is kept, so that their
\* metadata differ in the value written last; an upload without a file
ConcInputs ==
    { [JsonInput(Absent, "http://img/1.png") EXCEPT !.ai = "bogus", !.flags = JsonFlags],
      [JsonInput(Absent, "http://img/1.png") EXCEPT !.ai = "meshy-5", !.flags = JsonFlags],
      MultipartInput(Absent) }

\* the task the status and result requests of a concurrent run ask for
ConcIds == {TaskIdOf[1]}

\* the format the result requests of a concurrent run ask for
ConcFmts == {"obj"}

InitConc ==
    /\ api_key = "msy_key"
    /\ req = [r \in Reqs |-> Idle]
    /\ remote = [t \in ConcTaskIds |-> "none"]
    /\ meta_dirs = {}
    /\ meta_log = [t \in ConcTaskIds |-> <<>>]
    /\ ds = DsIdle /\ cam = CamIdle /\ vw = VwIdle

NextConc ==
    \/ \E r \in Reqs : ProcessImage(r, ConcInputs)
    \/ \E r \in Reqs : CallCreate(r)
    \/ \E r \in Reqs : SaveMeta(r)
    \/ \E r \in Reqs : GetStatus(r, ConcIds)
    \/ \E r \in Reqs : GetResult(r, ConcIds, ConcFmts)
    \/ \E r \in Reqs : FetchModel(r)
    \/ \E r \in Reqs : Finish(r)
    \/ \E t \in ConcTaskIds : RemoteProgress(t)

SpecConc == InitConc /\ [][NextConc]_vars

----------------------------------------------------------------------------
(* The viewer's downsampling: every cloud and target count, one call *)

InitDS ==
    /\ api_key = Null
    /\ req = [r \in Reqs |-> Idle]
    /\ remote = [t \in TaskIds |-> "none"]
    /\ meta_dirs = {}
    /\ meta_log = [t \in TaskIds |-> <<>>]
    /\ ds \in {d \in DsInputs : WellFormedCloud(d)}
    /\ cam = CamIdle
    /\ vw = VwIdle

NextDS == Downsample

SpecDS == InitDS /\ [][NextDS]_vars

----------------------------------------------------------------------------
(* The viewer in horizontal-only mode: the user moves the camera, the      *)
(* callback runs once per frame                                            *)

\* the proxy is not running
ProxyOff ==
    /\ api_key = Null
    /\ req = [r \in Reqs |-> Idle]
    /\ remote = [t \in TaskIds |-> "none"]
    /\ meta_dirs = {}
    /\ meta_log = [t \in TaskIds |-> <<>>]

InitCam ==
    /\ ProxyOff
    /\ ds = DsIdle
    /\ vw = VwIdle
    /\ cam \in {Activated(d) : d \in Distances}

NextCam == UserInput \/ LimiterTick

SpecCam == InitCam /\ [][NextCam]_vars

----------------------------------------------------------------------------
(* One run of the viewer's main(): the three stages, and within the       *)
(* viewer's event loop the camera session of the horizontal-only mode      *)

\* every run in free mode; the horizontal-only mode, whose session has the
\* many camera moves of UserInput, without downsampling and in a current
\* directory that exists
InitMain ==
    /\ ProxyOff
    /\ ds = DsIdle
    /\ cam = CamIdle
    /\ vw \in {v \in VwInputs : v.horizontal_only => v.points = MaxPoints /\ v.cwd}

NextMain ==
    \/ LoadPly
    \/ DownsampleStage
    \/ ShowViewer
    \/ UserInput
    \/ LimiterTick
    \/ CloseViewer

SpecMain == InitMain /\ [][NextMain]_vars

----------------------------------------------------------------------------
(* Vocabulary of the properties *)

Done(q) == q.pc = "done"

NoRemoteCall(q) == q.calls.create = 0 /\ q.calls.status = 0 /\ q.calls.fetch = 0

\* the request carries an image the handler can use: a named multipart
\* file, decodable base64, or (without base64) a URL
ValidImageSource(in) ==
    \/ in.ctype = "multipart" /\ in.file = "photo.png"
    \/ in.ctype = "json" /\ in.body = "object"
         /\ in.b64 \in {"QUJD", "data:image/png;base64,QUJD"}
    \/ in.ctype = "json" /\ in.body = "object"
         /\ in.b64 \in {Absent, ""} /\ in.url = "http://img/1.png"

\* the format parameter names glb, obj or ply in some letter case, or is
\* missing or empty
SupportedFormat(raw) == raw \in {Absent, "", "glb", "GLB", "obj", "Ply"}

\* the operation needs the remote service
NeedsRemote(q) ==
    \/ q.op = "process_image" /\ ValidImageSource(q.in)
    \/ q.op = "status"
    \/ q.op = "result" /\ SupportedFormat(q.in.fmt)

\* the status call of the request was answered with a JSON body
StatusReported(q) == Ok(q.up_status) /\ q.up_status.body = "json"

\* the request carries no image: no named multipart file, and no
\* image_base64 and no image_url in a JSON object
NoImageSource(in) ==
    /\ ~(in.ctype = "multipart" /\ in.file = "photo.png")
    /\ ~(in.ctype = "json" /\ in.body = "object"
           /\ (in.b64 \notin {Absent, ""} \/ in.url \notin {Absent, ""}))

\* no create call, no stored upload, no metadata
NothingDone(q) == q.calls.create = 0 /\ q.upload = "none" /\ q.meta = "none"

\* the ai_model the request supplies (Absent when it supplies none)
Supplied(in) == in.ai

\* the create call was answered with a success carrying a task identifier
HasTaskId(up) ==
    Ok(up) /\ up.body = "json" /\ Get(up.data, "result") \notin {Null, ""}

\* the remote call raised or was answered with a non-success status
Failed(up) == up.kind = "raise" \/ (up.kind = "http" /\ ~Ok(up))

Is2xx(code) == code \in 200..299

\* a transform that is horizontally level: up axis vertical, forward axis
\* with no vertical component, height as captured at activation
Level(e, y0) ==
    /\ e.R[1][2] = Zero /\ e.R[3][2] = Zero
    /\ e.R[2][2] \in {One, Neg(One)}
    /\ e.R[2][3] = Zero
    /\ e.t[2] = y0

\* two floats that differ by 1e-10 at most
Near(x, y) == x[1] = y[1] /\ x[2] - y[2] \in (-Unit)..Unit

\* two transforms whose rotation entries differ by 1e-10 at most and whose
\* translations are equal
NearT(d, e) ==
    /\ \A i, j \in 1..3 : Near(d.R[i][j], e.R[i][j])
    /\ d.t = e.t

\* main has ended, by returning or by an exception that left it
Ended == vw.pc \in {"returned", "propagated"}

\* the three stages ran to their end
AllCompleted == vw.ran = <<"load", "downsample", "show">> /\ vw.raised = "none"

\* a rotation block with unit-length, mutually perpendicular columns, up to
\* offsets of the order of 1e-10 (and so with such rows)
Orthonormal(R) ==
    \A i, j \in 1..3 :
        R[1][i][1] * R[1][j][1] + R[2][i][1] * R[2][j][1] + R[3][i][1] * R[3][j][1]
            = IF i = j THEN Unit * Unit ELSE 0

\* a camera looking straight up or down: the forward axis has no
\* horizontal part
Vertical(e) == e.R[1][3] = Zero /\ e.R[3][3] = Zero

\* the callback has run since the last user input
Ticked == cam.pc = "running" /\ cam.ticks >= 1

----------------------------------------------------------------------------
(* C1: without the API credential, every operation that needs the remote  *)
(* service is answered 500 with the configuration-error message, and the   *)
(* request makes no call to the remote service.                            *)
C1_NoCredential ==
    api_key \in {Null, ""} =>
        \A r \in Reqs :
            /\ NoRemoteCall(req[r])
            /\ Done(req[r]) /\ NeedsRemote(req[r]) =>
                 /\ req[r].resp.code = 500
                 /\ req[r].resp.body = [error |-> ConfigMsg]

\* C1 witness: an upload was accepted and stored, the credential is the
\* empty string, and the request ended 500 without a remote call
C1_Witness ==
    \E r \in Reqs :
        /\ api_key = ""
        /\ Done(req[r]) /\ req[r].op = "process_image"
        /\ req[r].upload = "saved"
        /\ req[r].resp.code = 500 /\ req[r].calls.create = 0

(* C2: a result request whose format is outside {glb, obj, ply} is         *)
(* answered 400 "Unsupported format" with the allowed list and makes no    *)
(* status call and no model fetch, with or without a credential and        *)
(* whatever the remote job's state.                                        *)
C2_UnsupportedFormat ==
    \A r \in Reqs :
        req[r].op = "result" /\ ~SupportedFormat(req[r].in.fmt) =>
            /\ Done(req[r])
            /\ req[r].resp.code = 400
            /\ req[r].resp.body =
                 [error |-> "Unsupported format", allowed |-> <<"glb", "obj", "ply">>]
            /\ NoRemoteCall(req[r])

\* C2 witness: the job has succeeded remotely, the credential is
\* configured, and format=XYZ is answered 400
C2_Witness ==
    \E r \in Reqs :
        /\ KeyConfigured
        /\ Done(req[r]) /\ req[r].op = "result" /\ req[r].in.fmt = "XYZ"
        /\ req[r].in.task \in TaskIds /\ remote[req[r].in.task] = "SUCCEEDED"
        /\ req[r].resp.code = 400

(* C3: for a result request with a supported format, a status call that    *)
(* succeeds and reports a status other than SUCCEEDED gives 409 carrying   *)
(* that status and no model fetch; the model is fetched only after the     *)
(* status call of the same request reported SUCCEEDED with a glb URL.      *)
C3_NotReady ==
    \A r \in Reqs :
        req[r].op = "result" /\ SupportedFormat(req[r].in.fmt) =>
            /\ StatusReported(req[r]) /\ Get(req[r].up_status.data, "status") # "SUCCEEDED" =>
                 /\ Done(req[r])
                 /\ req[r].resp.code = 409
                 /\ req[r].resp.body["status"] = Get(req[r].up_status.data, "status")
                 /\ req[r].calls.fetch = 0
            /\ req[r].pc = "fetch" \/ req[r].calls.fetch > 0 =>
                 /\ req[r].calls.status = 1
                 /\ StatusReported(req[r])
                 /\ Get(req[r].up_status.data, "status") = "SUCCEEDED"
                 /\ Get(req[r].up_status.data, "model_urls") = "{glb}"

\* C3 witness: format ply, the remote job is PENDING, the answer is 409
C3_Witness ==
    \E r \in Reqs :
        /\ Done(req[r]) /\ req[r].op = "result" /\ req[r].in.fmt = "Ply"
        /\ StatusReported(req[r])
        /\ Get(req[r].up_status.data, "status") = "PENDING"
        /\ Get(req[r].up_status.data, "model_urls") = "{glb}"
        /\ req[r].resp.code = 409 /\ req[r].calls.fetch = 0

(* C4 as claimed: a process-image request without an image source is      *)
(* answered 400 for every content type, with no remote create call and     *)
(* nothing persisted.                                                      *)
C4_Original ==
    \A r \in Reqs :
        req[r].op = "process_image" /\ NoImageSource(req[r].in) =>
            /\ Done(req[r]) /\ NothingDone(req[r])
            /\ req[r].resp.code = 400

(* C4 as amended: such a request is answered 400 with the explanatory      *)
(* error when it is multipart, or JSON whose body is an object or null;    *)
(* 415 "Unsupported content type" when its content type is neither         *)
(* multipart nor JSON; 500 when it is JSON whose body does not parse or is *)
(* a truthy non-object.  In every case no remote create call is made and   *)
(* no upload or metadata is persisted.                                     *)
C4_NoImage ==
    \A r \in Reqs :
        req[r].op = "process_image" /\ NoImageSource(req[r].in) =>
            /\ Done(req[r]) /\ NothingDone(req[r])
            /\ req[r].in.ctype = "multipart"
                 \/ (req[r].in.ctype = "json" /\ req[r].in.body \in {"object", "null"}) =>
                   /\ req[r].resp.code = 400
                   /\ req[r].resp.body = [error |-> NoImageMsg]
            /\ req[r].in.ctype \notin {"multipart", "json"} =>
                   /\ req[r].resp.code = 415
                   /\ req[r].resp.body = [error |-> "Unsupported content type"]
            /\ req[r].in.ctype = "json" /\ req[r].in.body \in {"scalar", "malformed"} =>
                   /\ req[r].resp.code = 500
                   /\ req[r].resp.body["error"] = "Internal server error"

\* C4 witness: a text/plain request without an image is answered 415 and
\* has reached neither the remote service nor the disk
C4_Witness ==
    \E r \in Reqs :
        /\ Done(req[r]) /\ req[r].op = "process_image"
        /\ req[r].in.ctype = "text"
        /\ req[r].resp.code = 415 /\ NothingDone(req[r])

(* C5 as claimed: with a valid image source the ai_model forwarded to the  *)
(* remote create call is "latest" or "meshy-5": a supplied member of that  *)
(* set unchanged, anything else or nothing as "latest", and the request is *)
(* answered 202 when the remote call succeeds.                             *)
C5_Claim ==
    \A r \in Reqs :
        req[r].op = "process_image" /\ ValidImageSource(req[r].in) =>
            /\ req[r].calls.create > 0 =>
                 /\ req[r].sent.ai_model \in {"latest", "meshy-5"}
                 /\ Supplied(req[r].in) \in {"latest", "meshy-5"} =>
                        req[r].sent.ai_model = Supplied(req[r].in)
                 /\ Supplied(req[r].in) \notin {"latest", "meshy-5"} =>
                        req[r].sent.ai_model = "latest"
            /\ Done(req[r]) /\ Ok(req[r].up_create) => req[r].resp.code = 202

(* C6 as claimed: process-image answers 202 with a task_id exactly when    *)
(* the remote create call succeeded and its response carried a non-empty   *)
(* task identifier, and that identifier is the task_id returned; a         *)
(* non-success remote response is relayed with its status code and its     *)
(* body as detail; a success without a task identifier is answered 502.    *)
C6_Claim ==
    \A r \in Reqs :
        Done(req[r]) /\ req[r].op = "process_image" =>
            /\ req[r].resp.code = 202 <=>
                 (req[r].calls.create = 1 /\ HasTaskId(req[r].up_create))
            /\ req[r].resp.code = 202 =>
                 req[r].resp.body = [task_id |-> req[r].up_create.data.result]
            /\ req[r].up_create.kind = "http" /\ ~Ok(req[r].up_create) =>
                 /\ req[r].resp.code = req[r].up_create.code
                 /\ req[r].resp.body["detail"] = Detail(req[r].up_create)
            /\ Ok(req[r].up_create) /\ ~HasTaskId(req[r].up_create) =>
                 req[r].resp.code = 502

(* C7 as claimed: every failure is surfaced: a request in which a remote   *)
(* call (create, status, model fetch) returned a non-success status or     *)
(* raised, or in which writing the task metadata failed, ends with a       *)
(* non-2xx response; only a failed write of the uploaded image may be      *)
(* swallowed.                                                              *)
C7_Claim ==
    \A r \in Reqs :
        Done(req[r]) =>
            /\ Failed(req[r].up_create) \/ Failed(req[r].up_status)
                 \/ Failed(req[r].up_fetch) => ~Is2xx(req[r].resp.code)
            /\ req[r].meta \in {"mkdir_failed", "open_failed", "dump_failed"} =>
                 ~Is2xx(req[r].resp.code)

(* C8: no retry: in one request each remote operation is invoked at most   *)
(* once (process-image: one create call at most; status: one status call   *)
(* at most; result: one status call at most, then one model fetch at       *)
(* most), and a remote call that fails ends the request with no further    *)
(* remote call.                                                            *)
C8_NoRetry ==
    \A r \in Reqs :
        /\ req[r].calls.create <= 1 /\ req[r].calls.status <= 1
        /\ req[r].calls.fetch <= 1
        /\ req[r].op = "process_image" =>
             req[r].calls.status = 0 /\ req[r].calls.fetch = 0
        /\ req[r].op = "status" => req[r].calls.create = 0 /\ req[r].calls.fetch = 0
        /\ req[r].op = "result" =>
             /\ req[r].calls.create = 0
             /\ req[r].calls.fetch = 1 => req[r].calls.status = 1
        /\ Failed(req[r].up_create) \/ Failed(req[r].up_status)
             \/ Failed(req[r].up_fetch) => Done(req[r])
        /\ Failed(req[r].up_status) => req[r].calls.fetch = 0

\* C8 witness: a result request made its status call and its model fetch,
\* the fetch raised, and the request ended there
C8_Witness ==
    \E r \in Reqs :
        /\ Done(req[r]) /\ req[r].op = "result"
        /\ req[r].calls.status = 1 /\ req[r].calls.fetch = 1
        /\ req[r].up_fetch.kind = "raise"
        /\ req[r].resp.code = 500

\* the state part of C9
C9_PassThrough ==
    \A r \in Reqs :
        req[r].op = "status" /\ KeyConfigured =>
            /\ Done(req[r])
            /\ req[r].calls.status = 1 /\ req[r].asked = req[r].in.task
            /\ req[r].resp.code = 200 <=> StatusReported(req[r])
            /\ req[r].resp.code = 200 =>
                 /\ DOMAIN req[r].resp.body = {"status", "progress", "message", "model_urls"}
                 /\ \A k \in DOMAIN req[r].resp.body :
                      req[r].resp.body[k] = Get(req[r].up_status.data, k)
            /\ req[r].up_status.kind = "http" /\ ~Ok(req[r].up_status) =>
                 req[r].resp.code = req[r].up_status.code

\* the step part of C9: the status a request relays from the job object is
\* the job's remote status at the time of that request
C9_Live ==
    \A r \in Reqs :
        /\ req[r].pc = "idle" /\ req'[r].op = "status"
        /\ req'[r].resp.code = 200
        /\ "id" \in DOMAIN req'[r].up_status.data
        => req'[r].resp.body["status"] = remote[req'[r].in.task]

(* C9: job status is never cached: with the credential configured every    *)
(* status request issues one remote status call for its task_id; a 200     *)
(* response is exactly the projection {status, progress, message,          *)
(* model_urls} of the remote response of that request, so it reports the   *)
(* job's remote state as of that request; a non-success remote response    *)
(* is relayed with the upstream status code.                               *)
C9_NeverCached == []C9_PassThrough /\ [][C9_Live]_vars

\* C9 witness: the job went from PENDING to SUCCEEDED remotely and a status
\* request relays SUCCEEDED, with message null since upstream sent none
C9_Witness ==
    \E r \in Reqs :
        /\ Done(req[r]) /\ req[r].op = "status"
        /\ req[r].resp.code = 200
        /\ req[r].resp.body["status"] = "SUCCEEDED"
        /\ req[r].resp.body["message"] = Null
        /\ remote[req[r].in.task] = "SUCCEEDED"

(* C10: downsample(pts, cols, N) on a cloud of M points: if M <= N the    *)
(* positions and colors come back unchanged; if N < M the result has       *)
(* exactly N points, taken at N different indices of the input, and when   *)
(* colors are present the color at each result position is the input's     *)
(* color at the same chosen index, so there is still one color per point.  *)
C10_Downsample ==
    ds.pc = "done" =>
        LET M == Len(ds.pts)
            N == ds.max_points
        IN  /\ M <= N =>
                 /\ ds.out_pts = ds.pts
                 /\ ds.out_has_cols = ds.has_cols
                 /\ ds.out_cols = ds.cols
            /\ N < M =>
                 /\ Len(ds.out_pts) = N
                 /\ Len(ds.idx) = N
                 /\ \A i \in 1..N : ds.idx[i] \in 1..M
                 /\ \A i, j \in 1..N : i # j => ds.idx[i] # ds.idx[j]
                 /\ \A i \in 1..N : ds.out_pts[i] = ds.pts[ds.idx[i]]
                 /\ ds.out_has_cols = ds.has_cols
                 /\ ds.has_cols =>
                      /\ Len(ds.out_cols) = Len(ds.out_pts)
                      /\ \A i \in 1..N : ds.out_cols[i] = ds.cols[ds.idx[i]]

\* C10 witness: a colored cloud of three points, two of them equal, cut
\* down to two points taken out of order
C10_Witness ==
    /\ ds.pc = "done"
    /\ ds.pts = <<"p", "q", "p">> /\ ds.has_cols
    /\ ds.cols = <<"red", "blue", "blue">>
    /\ ds.max_points = 2
    /\ ds.idx = <<3, 1>>
    /\ ds.out_pts = <<"p", "p">> /\ ds.out_cols = <<"blue", "red">>

----------------------------------------------------------------------------
(* C11 as claimed: the rotation limiter applied to a camera transform that *)
(* is already horizontally level writes back a transform equal to its      *)
(* input, so any number of applications in a row gives the transform of    *)
(* one application.                                                        *)
C11_Original ==
    Ticked /\ Level(cam.tick_in, cam.initial_y)
        => cam.once = cam.tick_in /\ cam.extrinsic = cam.once

(* C11 as amended: applied to a level camera transform the limiter writes  *)
(* back a transform that equals its input up to 1e-10 in each entry of the *)
(* rotation (the up axis and the translation exactly; the right and        *)
(* forward axes are divided by their length plus 1e-10, so a unit axis     *)
(* comes back 1e-10 shorter), and every further application in a row       *)
(* writes back the very transform of the first one.                        *)
C11_LevelNoOp ==
    Ticked /\ Level(cam.tick_in, cam.initial_y)
        => /\ NearT(cam.once, cam.tick_in)
           /\ \A i \in 1..3 : cam.once.R[i][2] = cam.tick_in.R[i][2]
           /\ cam.extrinsic = cam.once

\* C11 witness: a level camera turned by 36.87 degrees and held upside
\* down went through two ticks or more; the second tick changed nothing
\* and the first one only shortened the right and forward axes
C11_Witness ==
    /\ cam.pc = "running" /\ cam.ticks >= 2
    /\ Level(cam.tick_in, cam.initial_y)
    /\ cam.tick_in.R[2][2] = Neg(One)
    /\ cam.tick_in.R[1][3] = Num(180)
    /\ cam.extrinsic = cam.once
    /\ cam.once # cam.tick_in

----------------------------------------------------------------------------
(* C12 as claimed: main returns 0 only when loading, downsampling and the  *)
(* viewer session all completed without an exception, and returns 1 when   *)
(* the file does not exist or when any later stage raises; a missing file  *)
(* is detected before any loading, downsampling or window creation.        *)
C12_Claim ==
    Ended =>
        /\ (vw.pc = "returned" /\ vw.code = "0") => AllCompleted
        /\ (~vw.exists \/ vw.raised # "none") => vw.pc = "returned" /\ vw.code = "1"
        /\ ~vw.exists => vw.ran = <<>> /\ ~vw.window

----------------------------------------------------------------------------
(* C13 as claimed: after every tick of the rotation limiter, whatever      *)
(* camera transform user input produced since the previous tick (a camera  *)
(* looking straight up or down included), the transform written back has   *)
(* an orthonormal rotation block and a vertical position equal to the      *)
(* value captured at activation.                                           *)
C13_Claim ==
    Ticked => /\ Orthonormal(cam.extrinsic.R)
              /\ cam.extrinsic.t[2] = cam.initial_y

----------------------------------------------------------------------------
\* at most one write per task, and none before the task's job was created
C14_Once ==
    \A t \in DOMAIN meta_log :
        /\ Len(meta_log[t]) <= 1
        /\ (meta_log[t] # <<>> \/ t \in meta_dirs) => remote[t] # "none"

\* a step that changes the metadata is the _save_meta of the process-image
\* request that holds the task's identifier from its own create call, and
\* the file it leaves holds the options that were forwarded; a request
\* that ends otherwise than 202 from process-image changes none
C14_Writer ==
    /\ (meta_log' # meta_log \/ meta_dirs' # meta_dirs) =>
          \E r \in Reqs :
            LET q == req[r]
                t == q.task_id
            IN  /\ q.op = "process_image" /\ q.pc = "save_meta"
                /\ HasTaskId(q.up_create) /\ q.up_create.data.result = t
                /\ remote[t] # "none"
                /\ \A r2 \in Reqs \ {r} : req[r2].task_id # t
                /\ \A u \in DOMAIN meta_log \ {t} : meta_log'[u] = meta_log[u]
                /\ meta_dirs \subseteq meta_dirs' /\ meta_dirs' \subseteq meta_dirs \cup {t}
                /\ meta_log'[t] # meta_log[t] =>
                      /\ meta_log[t] = <<>> /\ Len(meta_log'[t]) = 1
                      /\ "options" \in DOMAIN meta_log'[t][1]
                      /\ \A k \in {"enable_pbr", "should_remesh", "should_texture",
                                    "ai_model"} :
                            /\ k \in DOMAIN meta_log'[t][1].options
                            /\ meta_log'[t][1].options[k] = q.sent[k]
                      /\ req'[r].pc = "done" /\ req'[r].resp.code = 202
    /\ \A r \in Reqs :
          (/\ req[r].pc # "done" /\ req'[r].pc = "done"
           /\ (req'[r].op # "process_image" \/ ~Is2xx(req'[r].resp.code)))
              => meta_log' = meta_log /\ meta_dirs' = meta_dirs

(* C14 as claimed: across any interleaving of concurrent proxy requests,   *)
(* the remote service giving each create call an identifier of its own,    *)
(* the metadata file of a task identifier is written at most once, only by *)
(* the process-image request whose create call returned that identifier    *)
(* and only after that call succeeded, with the option values that were    *)
(* forwarded to the remote service; status and result requests, and        *)
(* process-image requests that end in an error, write and delete no        *)
(* metadata (no handler reads any).                                        *)
C14_Claim == []C14_Once /\ [][C14_Writer]_vars

====
